---------------------------- MODULE Spec2Model ----------------------------
(***************************************************************************)
(* Model of src/main.py: the Streamlit dashboard "Acompanhamento de        *)
(* Desempenho".  One script run (a render cycle) loads the two Oracle      *)
(* tables through the memoized carregar_dados, filters a class, summarises *)
(* the students and ranks the "Ir Alem" marks.                             *)
(*                                                                         *)
(* Conventions.  A cell of a row is a record [t, s, n]: t is the kind      *)
(* ("null" for None/NaN, "str", "num", "inf", "ninf", "lob"), s the text   *)
(* as a sequence of one-character strings, n the number in thousandths     *)
(* (8.5 is 8500), so that round(.., 3) is exact.  A table or DataFrame is  *)
(* a sequence of records keyed by the lower-cased column names.            *)
(* One script run at a time is modelled (spec section 5); the database is  *)
(* changed by other actors between any two steps of the run.               *)
(***************************************************************************)
EXTENDS Integers, Sequences, FiniteSets, TLC

VARIABLES
    dbAtv,      \* table atividades, in the order a query returns it
    dbAlu,      \* table alunos
    cache,      \* st.cache_data entry of carregar_dados: [set, value]
    checkedOut, \* connections of POOL currently acquired
    pc,         \* position of the script run
    atv,        \* carregar_dados' local atv between its two fetches
    dados,      \* module-level dados of the current run
    out,        \* what the run showed: error, messages, views, tables
    lastLoad,   \* history: what the last successful load returned
    cleared,    \* history: clear() was called and no load succeeded since
    queried,    \* history: tables queried in the current run
    seenAtv,    \* history: atividades as it was when last queried
    seenAlu,    \* history: alunos as it was when last queried
    failed      \* history: a fetch of the current run raised

vars == <<dbAtv, dbAlu, cache, checkedOut, pc, atv, dados, out,
          lastLoad, cleared, queried, seenAtv, seenAlu, failed>>

---------------------------------------------------------------------------
(* Cells *)

Null == [t |-> "null", s |-> <<>>, n |-> 0]

Str(s) == [t |-> "str", s |-> s, n |-> 0]

Num(n) == [t |-> "num", s |-> <<>>, n |-> n]

Inf == [t |-> "inf", s |-> <<>>, n |-> 0]

NegInf == [t |-> "ninf", s |-> <<>>, n |-> 0]

Lob(s) == [t |-> "lob", s |-> s, n |-> 0]

isna(c) == c.t = "null"

---------------------------------------------------------------------------
(* Text *)

Ascii == <<" ", "+", ",", "-", ".",
           "0", "1", "2", "3", "4", "5", "6", "7", "8", "9",
           "A", "B", "C", "D", "E", "F", "G", "H", "I", "J", "K", "L", "M",
           "N", "O", "P", "Q", "R", "S", "T", "U", "V", "W", "X", "Y", "Z",
           "a", "b", "c", "d", "e", "f", "g", "h", "i", "j", "k", "l", "m",
           "n", "o", "p", "q", "r", "s", "t", "u", "v", "w", "x", "y", "z">>

Ord(ch) == CHOOSE i \in 1..Len(Ascii) : Ascii[i] = ch

Digits == {"0", "1", "2", "3", "4", "5", "6", "7", "8", "9"}

DigitVal(ch) == Ord(ch) - Ord("0")

DigitChar(d) == Ascii[Ord("0") + d]

IsSpace(ch) == ch = " "

RECURSIVE rstrip(_)
rstrip(s) ==
    IF s # <<>> /\ IsSpace(s[Len(s)]) THEN rstrip(SubSeq(s, 1, Len(s) - 1))
    ELSE s

RECURSIVE lstrip(_)
lstrip(s) ==
    IF s # <<>> /\ IsSpace(s[1]) THEN lstrip(Tail(s)) ELSE s

strip(s) == lstrip(rstrip(s))

upperChar(ch) ==
    IF Ord(ch) >= Ord("a") /\ Ord(ch) <= Ord("z")
    THEN Ascii[Ord(ch) - Ord("a") + Ord("A")]
    ELSE ch

(* variant: the comparison with "SIM" made on the text as it is *)
upperAsIs(s) == s

upper(s) == [i \in 1..Len(s) |-> upperChar(s[i])]

replaceComma(s) == [i \in 1..Len(s) |-> IF s[i] = "," THEN "." ELSE s[i]]

RECURSIVE StrLess(_, _)
StrLess(a, b) ==
    IF b = <<>> THEN FALSE
    ELSE IF a = <<>> THEN TRUE
    ELSE IF a[1] = b[1] THEN StrLess(Tail(a), Tail(b))
    ELSE Ord(a[1]) < Ord(b[1])

---------------------------------------------------------------------------
(* Numbers and their text *)

RECURSIVE NatDigits(_)
NatDigits(k) ==
    IF k < 10 THEN <<DigitChar(k)>>
    ELSE Append(NatDigits(k \div 10), DigitChar(k % 10))

RECURSIVE DigitsVal(_)
DigitsVal(s) ==
    IF s = <<>> THEN 0
    ELSE 10 * DigitsVal(SubSeq(s, 1, Len(s) - 1)) + DigitVal(s[Len(s)])

Abs(k) == IF k < 0 THEN -k ELSE k

FracDigits(m) ==
    IF m % 100 = 0 THEN <<DigitChar(m \div 100)>>
    ELSE IF m % 10 = 0 THEN <<DigitChar(m \div 100), DigitChar((m \div 10) % 10)>>
    ELSE <<DigitChar(m \div 100), DigitChar((m \div 10) % 10), DigitChar(m % 10)>>

FormatNum(n) ==
    (IF n < 0 THEN <<"-">> ELSE <<>>)
        \o NatDigits(Abs(n) \div 1000) \o <<".">> \o FracDigits(Abs(n) % 1000)

FracVal(s) ==
    LET d(i) == IF i <= Len(s) THEN DigitVal(s[i]) ELSE 0
    IN  100 * d(1) + 10 * d(2) + d(3)

(* astype(str) of a cell of the text and score columns: text, a float or
   None; the queries return no other kind in these columns *)
astype_str(c) ==
    CASE c.t = "str" -> c
      [] c.t = "num" -> Str(FormatNum(c.n))
      [] OTHER       -> Str(<<"N", "o", "n", "e">>)

(* pd.to_numeric(errors="coerce") of a text: sign, digits, at most one dot;
   anything else is NaN.  Three decimals are kept. *)
to_numeric(c) ==
    LET s      == c.s
        signed == s # <<>> /\ s[1] \in {"-", "+"}
        body   == IF signed THEN Tail(s) ELSE s
        dots   == {i \in 1..Len(body) : body[i] = "."}
        ok     == /\ Cardinality(dots) <= 1
                  /\ \A i \in 1..Len(body) : body[i] \in Digits \cup {"."}
                  /\ \E i \in 1..Len(body) : body[i] \in Digits
        dot    == IF dots = {} THEN Len(body) + 1 ELSE CHOOSE i \in dots : TRUE
        whole  == DigitsVal(SubSeq(body, 1, dot - 1))
        frac   == FracVal(SubSeq(body, dot + 1, Len(body)))
        mag    == 1000 * whole + frac
    IN  IF ok THEN Num(IF signed /\ s[1] = "-" THEN -mag ELSE mag) ELSE Null

(* round half to even of p / q, q > 0 *)
RoundDiv(p, q) ==
    LET fl  == p \div q
        rem == p - fl * q
    IN  IF 2 * rem < q THEN fl
        ELSE IF 2 * rem > q THEN fl + 1
        ELSE IF fl % 2 = 0 THEN fl ELSE fl + 1

---------------------------------------------------------------------------
(* Generic helpers on frames *)

(* stable sort of s; lt[i, j] says s[i] sorts before s[j] *)
Sorted(s, lt) ==
    LET n       == Len(s)
        rank(i) == 1 + Cardinality({j \in 1..n :
                        lt[j, i] \/ (~lt[i, j] /\ j < i)})
    IN  [p \in 1..n |-> s[CHOOSE i \in 1..n : rank(i) = p]]

RECURSIVE Unique(_)
Unique(s) ==
    IF s = <<>> THEN <<>>
    ELSE LET init == Unique(SubSeq(s, 1, Len(s) - 1))
             x    == s[Len(s)]
         IN  IF \E i \in 1..Len(init) : init[i] = x THEN init ELSE Append(init, x)

(* order of two cells of one column; NaN sorts last *)
CellLess(a, b) ==
    IF isna(a) THEN FALSE
    ELSE IF isna(b) THEN TRUE
    ELSE IF a.t = "num" /\ b.t = "num" THEN a.n < b.n
    ELSE StrLess(a.s, b.s)

---------------------------------------------------------------------------
(* _fetch_df *)

read(c) == Str(c.s)

fix(c) ==
    IF c.t = "str"
    THEN Str(rstrip((IF c.t = "lob" THEN read(c) ELSE c).s))
    ELSE c

fixRow(r) == [col \in DOMAIN r |-> fix(r[col])]

fetch_df(table) == [i \in 1..Len(table) |-> fixRow(table[i])]

---------------------------------------------------------------------------
(* carregar_dados *)

limpa(c) == Str(strip(astype_str(c).s))

limpaAtv(r) ==
    [r EXCEPT !.id_atividade = limpa(@), !.turma = limpa(@), !.fase = limpa(@)]

limpaAlu(r) ==
    [r EXCEPT !.id_atividade = limpa(@), !.rm = limpa(@), !.nome = limpa(@)]

notaNumerica(r) ==
    [r EXCEPT !.nota = to_numeric(Str(replaceComma(astype_str(@).s)))]

semAtividade ==
    [turma |-> Null, fase |-> Null, nome_atividade |-> Null, nota_maxima |-> Null]

junta(g, a) ==
    [id_atividade |-> g.id_atividade, id_aluno |-> g.id_aluno, rm |-> g.rm,
     nome |-> g.nome, nota |-> g.nota, feedback |-> g.feedback,
     ir_alem |-> g.ir_alem, turma |-> a.turma, fase |-> a.fase,
     nome_atividade |-> a.nome_atividade, nota_maxima |-> a.nota_maxima,
     percentual |-> Null]

(* variant: an inner join, which drops a grade row without activity *)
mergeRowInner(g, right) ==
    LET hits == SelectSeq(right, LAMBDA a : a.id_atividade = g.id_atividade)
    IN  [i \in 1..Len(hits) |-> junta(g, hits[i])]

mergeRow(g, right) ==
    LET hits == SelectSeq(right, LAMBDA a : a.id_atividade = g.id_atividade)
    IN  IF hits = <<>> THEN <<junta(g, semAtividade)>>
        ELSE [i \in 1..Len(hits) |-> junta(g, hits[i])]

RECURSIVE merge(_, _)
merge(left, right) ==
    IF left = <<>> THEN <<>>
    ELSE mergeRow(left[1], right) \o merge(Tail(left), right)

clipUpper(c) ==
    IF c.t = "inf" THEN Num(100000)
    ELSE IF c.t = "num" /\ c.n > 100000 THEN Num(100000)
    ELSE c

percentual(nota, nota_maxima) ==
    IF isna(nota) \/ isna(nota_maxima) THEN Null
    ELSE IF nota_maxima.n = 0
         THEN IF nota.n = 0 THEN Null
              ELSE IF nota.n > 0 THEN clipUpper(Inf) ELSE clipUpper(NegInf)
    ELSE LET p == IF nota_maxima.n < 0 THEN -(nota.n) ELSE nota.n
             q == Abs(nota_maxima.n)
         IN  clipUpper(Num(RoundDiv(100000 * p, q)))

comPercentual(r) == [r EXCEPT !.percentual = percentual(r.nota, r.nota_maxima)]

porFaseAtividade(a, b) ==
    \/ CellLess(a.fase, b.fase)
    \/ a.fase = b.fase /\ CellLess(a.nome_atividade, b.nome_atividade)

carregar_dados(atvFetched, aluFetched) ==
    LET atvL == [i \in 1..Len(atvFetched) |-> limpaAtv(atvFetched[i])]
        aluL == [i \in 1..Len(aluFetched) |->
                    notaNumerica(limpaAlu(aluFetched[i]))]
        m    == merge(aluL, atvL)
        pct  == [i \in 1..Len(m) |-> comPercentual(m[i])]
    IN  Sorted(pct, [i, j \in 1..Len(pct) |-> porFaseAtividade(pct[i], pct[j])])

---------------------------------------------------------------------------
(* resumo_alunos *)

chaveAluno(r) == <<r.id_aluno, r.rm, r.nome>>

chaveLess(k1, k2) ==
    \/ CellLess(k1[1], k2[1])
    \/ k1[1] = k2[1] /\ CellLess(k1[2], k2[2])
    \/ k1[1] = k2[1] /\ k1[2] = k2[2] /\ CellLess(k1[3], k2[3])

(* groupby drops the rows whose key holds a NaN; the groups come sorted *)
gruposAluno(df) ==
    LET keyed == SelectSeq(df, LAMBDA r :
                     \A i \in 1..3 : ~isna(chaveAluno(r)[i]))
        ks    == Unique([i \in 1..Len(keyed) |-> chaveAluno(keyed[i])])
    IN  Sorted(ks, [i, j \in 1..Len(ks) |-> chaveLess(ks[i], ks[j])])

RECURSIVE SumN(_)
SumN(s) == IF s = <<>> THEN 0 ELSE s[1].n + SumN(Tail(s))

media_pct(x) ==
    LET vals == SelectSeq(x, LAMBDA c : ~isna(c))
    IN  IF vals = <<>> THEN Null
        ELSE IF \E i \in 1..Len(vals) : vals[i].t = "ninf" THEN NegInf
        ELSE LET s == SumN(vals)
                 q == 100 * Len(vals)
             IN  Num(100 * (IF s >= 0 THEN RoundDiv(s, q) ELSE -RoundDiv(-s, q)))

(* variant: count() of the rows instead of the scores present *)
notasContadas(x) == Len(x)

notas_lancadas(x) == Len(SelectSeq(x, LAMBDA c : ~isna(c)))

pct_faltas(x) == RoundDiv(100 * Len(SelectSeq(x, LAMBDA c : isna(c))), Len(x))

porNome(a, b) == CellLess(a.Nome, b.Nome)

resumo_alunos(df) ==
    LET ks  == gruposAluno(df)
        col(k) == LET g == SelectSeq(df, LAMBDA r : chaveAluno(r) = k)
                  IN  [i \in 1..Len(g) |-> g[i].percentual]
        res == [i \in 1..Len(ks) |->
                  [id_aluno |-> ks[i][1], RM |-> ks[i][2], Nome |-> ks[i][3],
                   media_pct |-> media_pct(col(ks[i])),
                   notas_lancadas |-> notas_lancadas(col(ks[i])),
                   pct_sem_nota |-> pct_faltas(col(ks[i]))]]
    IN  Sorted(res, [i, j \in 1..Len(res) |-> porNome(res[i], res[j])])

---------------------------------------------------------------------------
(* ranking "Ir Alem" *)

SIM == <<"S", "I", "M">>

foiAlem(r) == r.ir_alem.t = "str" /\ upper(r.ir_alem.s) = SIM

chaveRanking(r) == <<r.rm, r.nome>>

chaveRankingLess(k1, k2) ==
    \/ CellLess(k1[1], k2[1])
    \/ k1[1] = k2[1] /\ CellLess(k1[2], k2[2])

porQuantidadeDesc(a, b) == a.Quantidade > b.Quantidade

ranking(df_turma) ==
    LET sel == SelectSeq(df_turma, foiAlem)
        keyed == [i \in 1..Len(sel) |-> chaveRanking(sel[i])]
        uk  == Unique(keyed)
        ks  == Sorted(uk, [i, j \in 1..Len(uk) |-> chaveRankingLess(uk[i], uk[j])])
        res == [i \in 1..Len(ks) |->
                  [rm |-> ks[i][1], nome |-> ks[i][2],
                   Quantidade |-> Len(SelectSeq(sel, LAMBDA r :
                                        chaveRanking(r) = ks[i]))]]
    IN  Sorted(res, [i, j \in 1..Len(res) |->
                        porQuantidadeDesc(res[i], res[j])])

---------------------------------------------------------------------------
(* The script run, lines 116-186 *)

NoneSel == Null

EmDash == "--"

Blank ==
    [error |-> "none", msgs |-> {}, views |-> {}, turma_sel |-> NoneSel,
     aluno_sel |-> <<>>, id_aluno |-> Null, resumo |-> <<>>, ranking |-> <<>>]

(* sorted(dados["turma"].dropna().unique()) *)
turmas(d) ==
    LET present == SelectSeq(d, LAMBDA r : ~isna(r.turma))
        u       == Unique([i \in 1..Len(present) |-> present[i].turma])
    IN  Sorted(u, [i, j \in 1..Len(u) |-> CellLess(u[i], u[j])])

(* st.selectbox: one of the options, None when there is none *)
selectbox(options, none) ==
    IF options = <<>> THEN {none} ELSE {options[i] : i \in 1..Len(options)}

filtraTurma(d, turma_sel) ==
    SelectSeq(d, LAMBDA r : ~isna(turma_sel) /\ r.turma = turma_sel)

label(r) == r.Nome.s \o <<" ", EmDash, " ">> \o r.RM.s

(* the keys of label_map, in insertion order *)
labels(resumo) == Unique([i \in 1..Len(resumo) |-> label(resumo[i])])

(* a later row of resumo overwrites an equal label *)
label_map(resumo, lbl) ==
    LET idx == {i \in 1..Len(resumo) : label(resumo[i]) = lbl}
        lst == CHOOSE i \in idx : \A j \in idx : j <= i
    IN  resumo[lst].id_aluno

filtraAluno(df_turma, id_aluno) ==
    SelectSeq(df_turma, LAMBDA r : r.id_aluno = id_aluno)

alunoView(df_aluno, o) ==
    IF df_aluno = <<>>
    THEN [o EXCEPT !.msgs = @ \cup {"Este aluno ainda nao tem notas."}]
    ELSE [o EXCEPT !.views = @ \cup {"grafico", "tabela"}]

rankingView(rk, o) ==
    IF rk = <<>>
    THEN [o EXCEPT !.msgs = @ \cup {"Ainda nao ha nenhum Ir Alem para esta turma."},
                   !.ranking = rk]
    ELSE [o EXCEPT !.views = @ \cup {"ranking"}, !.ranking = rk]

(* aluno_sel = <<>> stands for the None of an empty selectbox *)
script(d, turma_sel, aluno_sel) ==
    IF d = <<>>
    THEN [Blank EXCEPT !.msgs = {"Banco vazio. Cadastre atividades primeiro."}]
    ELSE LET df_turma == filtraTurma(d, turma_sel)
             resumo   == resumo_alunos(df_turma)
             shown    == [Blank EXCEPT !.turma_sel = turma_sel,
                                       !.views = {"resumo"},
                                       !.resumo = resumo]
         IN  IF df_turma = <<>>
             THEN [Blank EXCEPT !.turma_sel = turma_sel,
                                !.msgs = {"Sem dados para esta turma."}]
             ELSE IF aluno_sel \notin {label(resumo[i]) : i \in 1..Len(resumo)}
             THEN [shown EXCEPT !.error = "KeyError"]
             ELSE LET id_aluno == label_map(resumo, aluno_sel)
                      df_aluno == filtraAluno(df_turma, id_aluno)
                      o        == [shown EXCEPT !.aluno_sel = aluno_sel,
                                                !.id_aluno = id_aluno]
                  IN  rankingView(ranking(df_turma), alunoView(df_aluno, o))

---------------------------------------------------------------------------
(* State machine *)

PoolMax == 4

NoCache == [set |-> FALSE, value |-> <<>>]

Cached(v) == [set |-> TRUE, value |-> v]

Raised(e) == [Blank EXCEPT !.error = e]

SeqsUpTo(S, n) == UNION {[1..k -> S] : k \in 0..n}

Start(atvTables, aluTables) ==
    /\ dbAtv \in atvTables
    /\ dbAlu \in aluTables
    /\ cache = NoCache
    /\ checkedOut = 0
    /\ pc = "idle"
    /\ atv = <<>>
    /\ dados = <<>>
    /\ out = Blank
    /\ lastLoad = NoCache
    /\ cleared = FALSE
    /\ queried = {}
    /\ seenAtv = <<>>
    /\ seenAlu = <<>>
    /\ failed = FALSE

(* a rerun of the script begins: lines 19-40 and 109 *)
BeginRun ==
    /\ pc' = "load"
    /\ atv' = <<>>
    /\ dados' = <<>>
    /\ out' = Blank
    /\ queried' = {}
    /\ failed' = FALSE
    /\ UNCHANGED <<dbAtv, dbAlu, checkedOut, lastLoad, seenAtv, seenAlu>>

(* any widget interaction other than the refresh button *)
Interact ==
    /\ pc = "idle"
    /\ BeginRun
    /\ UNCHANGED <<cache, cleared>>

(* variant: the button reruns the script and leaves the cache alone *)
RefreshSemClear ==
    /\ pc = "idle"
    /\ BeginRun
    /\ cleared' = TRUE
    /\ UNCHANGED cache

(* the button: carregar_dados.clear(), then st.rerun() *)
Refresh ==
    /\ pc = "idle"
    /\ BeginRun
    /\ cache' = NoCache
    /\ cleared' = TRUE

(* carregar_dados() answered by st.cache_data *)
LoadHit ==
    /\ pc = "load"
    /\ cache.set
    /\ dados' = cache.value
    /\ pc' = "render"
    /\ UNCHANGED <<dbAtv, dbAlu, cache, checkedOut, atv, out, lastLoad, cleared,
                   queried, seenAtv, seenAlu, failed>>

(* POOL.acquire() of _fetch_df, for either query *)
Acquire ==
    /\ \/ pc = "load" /\ ~cache.set /\ pc' = "atv_conn"
       \/ pc = "alu_wait" /\ pc' = "alu_conn"
    /\ checkedOut < PoolMax
    /\ checkedOut' = checkedOut + 1
    /\ UNCHANGED <<dbAtv, dbAlu, cache, atv, dados, out, lastLoad, cleared,
                   queried, seenAtv, seenAlu, failed>>

(* POOL.acquire() raises: nothing was checked out *)
AcquireFail ==
    /\ \/ pc = "load" /\ ~cache.set
       \/ pc = "alu_wait"
    /\ pc' = "idle"
    /\ out' = Raised("ConnectivityError")
    /\ failed' = TRUE
    /\ atv' = <<>>
    /\ UNCHANGED <<dbAtv, dbAlu, cache, checkedOut, dados, lastLoad, cleared,
                   queried, seenAtv, seenAlu>>

(* variant: the failure is caught and an empty frame carries on *)
FetchFailRecuperado ==
    /\ pc \in {"atv_conn", "alu_conn"}
    /\ checkedOut' = checkedOut - 1
    /\ pc' = "render"
    /\ dados' = <<>>
    /\ failed' = TRUE
    /\ atv' = <<>>
    /\ UNCHANGED <<dbAtv, dbAlu, cache, out, lastLoad, cleared,
                   queried, seenAtv, seenAlu>>

(* variant: no with block, the connection stays checked out on failure *)
FetchFailSemWith ==
    /\ pc \in {"atv_conn", "alu_conn"}
    /\ pc' = "idle"
    /\ out' = Raised("ConnectivityError")
    /\ failed' = TRUE
    /\ atv' = <<>>
    /\ UNCHANGED <<dbAtv, dbAlu, cache, checkedOut, dados, lastLoad, cleared,
                   queried, seenAtv, seenAlu>>

release(n) == n - 1

(* execute or fetchall raises inside the with block, which releases *)
FetchFail ==
    /\ pc \in {"atv_conn", "alu_conn"}
    /\ checkedOut' = release(checkedOut)
    /\ pc' = "idle"
    /\ out' = Raised("ConnectivityError")
    /\ failed' = TRUE
    /\ atv' = <<>>
    /\ UNCHANGED <<dbAtv, dbAlu, cache, dados, lastLoad, cleared,
                   queried, seenAtv, seenAlu>>

(* atv = _fetch_df(SELECT ... FROM atividades) *)
FetchAtv ==
    /\ pc = "atv_conn"
    /\ atv' = fetch_df(dbAtv)
    /\ checkedOut' = release(checkedOut)
    /\ pc' = "alu_wait"
    /\ queried' = queried \cup {"atividades"}
    /\ seenAtv' = dbAtv
    /\ UNCHANGED <<dbAtv, dbAlu, cache, dados, out, lastLoad, cleared, seenAlu, failed>>

(* variant: the function without @st.cache_data, nothing is kept *)
storeNada(v) == NoCache

store(v) == Cached(v)

(* alu = _fetch_df(SELECT ... FROM alunos), the rest of carregar_dados, and
   st.cache_data keeping what it returned *)
FetchAlu ==
    /\ pc = "alu_conn"
    /\ dados' = carregar_dados(atv, fetch_df(dbAlu))
    /\ cache' = store(dados')
    /\ checkedOut' = release(checkedOut)
    /\ atv' = <<>>
    /\ pc' = "render"
    /\ queried' = queried \cup {"alunos"}
    /\ seenAlu' = dbAlu
    /\ UNCHANGED <<dbAtv, dbAlu, out, lastLoad, cleared, seenAtv, failed>>

(* lines 116-186 with the user's choices in the two select boxes *)
Render ==
    /\ pc = "render"
    /\ \E turma_sel \in selectbox(turmas(dados), NoneSel) :
         \E aluno_sel \in selectbox(
                labels(resumo_alunos(filtraTurma(dados, turma_sel))), <<>>) :
            out' = script(dados, turma_sel, aluno_sel)
    /\ pc' = "idle"
    /\ lastLoad' = Cached(dados)
    /\ cleared' = FALSE
    /\ UNCHANGED <<dbAtv, dbAlu, cache, checkedOut, atv, dados,
                   queried, seenAtv, seenAlu, failed>>

RunStep ==
    \/ Interact
    \/ Refresh
    \/ LoadHit
    \/ Acquire
    \/ AcquireFail
    \/ FetchFail
    \/ FetchAtv
    \/ FetchAlu
    \/ Render

---------------------------------------------------------------------------
(* Inputs *)

Text2(a, b) == Str(<<a, b>>)

Atividade(id, turma, nota_maxima) ==
    [id_atividade |-> id, turma |-> turma, fase |-> Text2("F", "1"),
     nome_atividade |-> Str(<<"P">> \o id.s), nota_maxima |-> nota_maxima]

Aluno(id_atividade, id_aluno, nome, nota, feedback, ir_alem) ==
    [id_atividade |-> id_atividade, id_aluno |-> id_aluno,
     rm |-> IF isna(id_aluno) THEN Text2("9", "9")
            ELSE Str(NatDigits(id_aluno.n \div 1000)),
     nome |-> nome, nota |-> nota, feedback |-> feedback, ir_alem |-> ir_alem]

Ann == Str(<<"A", "n", "n">>)

Bob == Str(<<"B", "o", "b">>)

MaxRows == 1

AtvRows ==
    {Atividade(Text2("A", "1"), Str(<<"T", "1", " ">>), Num(10000)),
     Atividade(Text2("A", "2"), Text2("T", "2"), Num(0))}

AluRows ==
    {Aluno(Text2("A", "1"), Num(1000), Ann, Str(<<"8", ",", "5">>),
           Lob(<<"o", "k", " ">>), Str(<<"S", "i", "m">>)),
     Aluno(Text2("A", "1"), Null, Bob, Null, Str(<<"x", " ">>), Null)}

Init == Start(SeqsUpTo(AtvRows, MaxRows), SeqsUpTo(AluRows, MaxRows))

(* other users of the database insert, update and delete rows *)
DbWriteAtv ==
    /\ \E t \in SeqsUpTo(AtvRows, MaxRows) : dbAtv' = t /\ t # dbAtv
    /\ UNCHANGED <<dbAlu, cache, checkedOut, pc, atv, dados, out,
                   lastLoad, cleared, queried, seenAtv, seenAlu, failed>>

DbWriteAlu ==
    /\ \E t \in SeqsUpTo(AluRows, MaxRows) : dbAlu' = t /\ t # dbAlu
    /\ UNCHANGED <<dbAtv, cache, checkedOut, pc, atv, dados, out,
                   lastLoad, cleared, queried, seenAtv, seenAlu, failed>>

Next == RunStep \/ DbWriteAtv \/ DbWriteAlu

Spec == Init /\ [][Next]_vars

---------------------------------------------------------------------------
(* Specifications over wider inputs, the database left alone: the same     *)
(* script, started on every table up to a size.                            *)

A1 == Text2("A", "1")

T1 == Text2("T", "1")

(* scores and maximum scores *)
MaxPctRows == 1

PctAtvRows == {Atividade(A1, T1, m) : m \in {Null, Num(0), Num(4000), Num(10000)}}

PctNotas ==
    {Null, Num(0), Num(5000), Num(-5000), Num(12000),
     Str(<<"8", ",", "5">>), Str(<<"8", ".", "5">>),
     Str(<<"1", "0", ",", "0">>), Str(<<"x">>), Str(<<"-", "2">>)}

PctAluRows ==
    {Aluno(id, Num(1000), Ann, nota, Null, Null) :
        id \in {A1, Text2("A", "9")}, nota \in PctNotas}

InitPct == Start(SeqsUpTo(PctAtvRows, MaxPctRows), SeqsUpTo(PctAluRows, MaxPctRows))

SpecPct == InitPct /\ [][RunStep]_vars

(* activity identifiers on both sides of the join *)
MaxJoinRows == 2

JoinIds == {A1, Str(<<" ", "A", "1">>), Text2("A", "3")}

JoinAtvRows == {Atividade(id, T1, Num(10000)) : id \in JoinIds}

JoinAluRows ==
    {Aluno(id, Num(1000), Ann, Num(5000), Null, Null) :
        id \in {A1, Str(<<"A", "1", " ">>), Text2("A", "2")}}

InitJoin ==
    Start(SeqsUpTo(JoinAtvRows, MaxJoinRows), SeqsUpTo(JoinAluRows, MaxJoinRows))

SpecJoin == InitJoin /\ [][RunStep]_vars

(* the "Ir Alem" marks of two students of one class *)
MaxRankRows == 2

RankMarks ==
    {Null, Str(<<>>), Str(<<"S", "I", "M">>), Str(<<"s", "i", "m">>),
     Str(<<"S", "i", "m">>), Str(<<"N", "A", "O">>),
     Str(<<"S", "I", "M", " ">>), Str(<<" ", "S", "I", "M">>)}

RankAluRows ==
    {Aluno(A1, Num(1000), Ann, Null, Null, m) : m \in RankMarks}
        \cup {Aluno(A1, Num(2000), Bob, Null, Null, m) : m \in RankMarks}

InitRank ==
    Start({<<Atividade(A1, T1, Num(10000))>>}, SeqsUpTo(RankAluRows, MaxRankRows))

SpecRank == InitRank /\ [][RunStep]_vars

(* present and missing scores of the students of one class *)
MaxSumRows == 3

SumAluRows ==
    {Aluno(A1, id, IF id = Num(2000) THEN Bob ELSE Ann, nota, Null, Null) :
        id \in {Null, Num(1000), Num(2000)},
        nota \in {Null, Num(5000), Str(<<"x">>)}}

InitSum ==
    Start({<<Atividade(A1, T1, Num(10000))>>}, SeqsUpTo(SumAluRows, MaxSumRows))

SpecSum == InitSum /\ [][RunStep]_vars

---------------------------------------------------------------------------
(* Properties *)

BothTables == {"atividades", "alunos"}

Fresh == carregar_dados(fetch_df(dbAtv), fetch_df(dbAlu))

(* C1: when a load returns and an earlier load has succeeded with no
   clear() since, the load returns the earlier value and has queried no
   table, whatever the tables hold by now. *)
C1_MemoizedUntilCleared ==
    (pc = "render" /\ lastLoad.set /\ ~cleared)
        => (dados = lastLoad.value /\ queried = {})

(* a second load returns while the tables no longer give the cached value *)
C1_Witness ==
    /\ pc = "render"
    /\ lastLoad.set
    /\ ~cleared
    /\ Fresh # dados

(* C2: the first load that returns after clear() has queried both tables
   and returns what carregar_dados computes from the tables as each was when
   queried; after clear() the cache is empty until that load returns; and
   without a clear() the cache still holds what the last load returned. *)
C2_RefreshRequeries ==
    /\ (cleared /\ pc = "render")
           => /\ queried = BothTables
              /\ dados = carregar_dados(fetch_df(seenAtv), fetch_df(seenAlu))
    /\ (cleared /\ pc # "render") => ~cache.set
    /\ (lastLoad.set /\ ~cleared) => cache = Cached(lastLoad.value)

(* the load after a refresh returns something else than the load before *)
C2_Witness ==
    /\ pc = "render"
    /\ cleared
    /\ lastLoad.set
    /\ dados # lastLoad.value
    /\ dados # <<>>

(* C3: every loaded record has a null percentage exactly when its score is
   null or its maximum score is null or zero, and otherwise a percentage
   between 0 and 100. *)
C3_PercentageRange ==
    \A i \in 1..Len(dados) :
        LET r == dados[i]
        IN  /\ isna(r.percentual) <=>
                   (isna(r.nota) \/ isna(r.nota_maxima) \/ r.nota_maxima.n = 0)
            /\ ~isna(r.percentual) =>
                   (r.percentual.t = "num" /\ r.percentual.n >= 0
                        /\ r.percentual.n <= 100000)

(* the join key of a fetched identifier: its text without outer blanks *)
JoinKey(c) == strip(c.s)

Matches(g, table) ==
    Cardinality({j \in 1..Len(table) :
                    JoinKey(table[j].id_atividade) = JoinKey(g.id_atividade)})

RECURSIVE JoinedCount(_, _)
JoinedCount(left, right) ==
    IF left = <<>> THEN 0
    ELSE (IF Matches(left[1], right) = 0 THEN 1 ELSE Matches(left[1], right))
             + JoinedCount(Tail(left), right)

UniqueActivityKeys(table) ==
    \A i, j \in 1..Len(table) :
        JoinKey(table[i].id_atividade) = JoinKey(table[j].id_atividade) => i = j

(* C4 as amended: a load returns one record per pair of a grade row and an
   activity row with the same stripped identifier, and one record for a
   grade row with no such activity; so never fewer records than grade rows,
   and exactly as many when no two activity rows share a stripped
   identifier. *)
C4_LeftJoinCount ==
    pc = "render" =>
        /\ Len(dados) = JoinedCount(seenAlu, seenAtv)
        /\ Len(dados) >= Len(seenAlu)
        /\ UniqueActivityKeys(seenAtv) => Len(dados) = Len(seenAlu)

(* a grade row without activity is kept beside one that matched *)
C4_Witness ==
    /\ pc = "render"
    /\ Len(seenAlu) = 2
    /\ Len(dados) = 2
    /\ UniqueActivityKeys(seenAtv)
    /\ \E i, j \in 1..2 : isna(dados[i].turma) /\ ~isna(dados[j].turma)

(* C4 as written: as many records as grade rows, whatever the tables hold *)
C4_Original == pc = "render" => Len(dados) = Len(seenAlu)

(* C5: once a fetch of the run has raised, the run is over with that error
   and has shown no message, view, summary or ranking; nothing is cached. *)
C5_FailureStopsRun ==
    failed =>
        /\ pc = "idle"
        /\ out = Raised("ConnectivityError")
        /\ ~cache.set

(* the second query failed after the first went through *)
C5_Witness ==
    /\ failed
    /\ queried = {"atividades"}
    /\ dbAlu # <<>>

(* C6: a run whose load succeeded ends without an error, whatever was
   loaded. *)
C6_NoErrorRaised == (pc = "idle" /\ ~failed) => out.error = "none"

Holding == IF pc \in {"atv_conn", "alu_conn"} THEN 1 ELSE 0

(* C7: at most PoolMax connections are checked out; one is checked out
   exactly while a fetch runs, and none after it ended, well or not. *)
C7_ConnectionReleased ==
    /\ checkedOut <= PoolMax
    /\ checkedOut = Holding

(* a fetch succeeded, the next one failed, and nothing is checked out *)
C7_Witness ==
    /\ pc = "idle"
    /\ failed
    /\ "atividades" \in queried
    /\ checkedOut = 0

SimVariants ==
    {<<a, b, c>> : a \in {"s", "S"}, b \in {"i", "I"}, c \in {"m", "M"}}

ClassRows == {i \in 1..Len(dados) : dados[i].turma = out.turma_sel}

WentAbove(rm, nome) ==
    {i \in ClassRows : /\ dados[i].rm = rm
                       /\ dados[i].nome = nome
                       /\ dados[i].ir_alem.t = "str"
                       /\ dados[i].ir_alem.s \in SimVariants}

RankingShown == pc = "idle" /\ out.error = "none" /\ "resumo" \in out.views

(* C8: the ranking of the class shown holds, for each (rm, nome) with a
   record marked SIM in any letter case, one entry with the number of such
   records, and no other entry. *)
C8_RankingCounts ==
    RankingShown =>
        /\ \A i \in ClassRows :
              LET n == Cardinality(WentAbove(dados[i].rm, dados[i].nome))
                  e == {k \in 1..Len(out.ranking) :
                           /\ out.ranking[k].rm = dados[i].rm
                           /\ out.ranking[k].nome = dados[i].nome}
              IN  IF n = 0 THEN e = {}
                  ELSE /\ Cardinality(e) = 1
                       /\ \A k \in e : out.ranking[k].Quantidade = n
        /\ \A k \in 1..Len(out.ranking) :
              WentAbove(out.ranking[k].rm, out.ranking[k].nome) # {}

(* "sim" and "Sim" of one student count 2 *)
C8_Witness ==
    /\ RankingShown
    /\ Len(dados) = 2
    /\ dados[1].ir_alem # dados[2].ir_alem
    /\ dados[1].ir_alem.s # SIM
    /\ dados[2].ir_alem.s # SIM
    /\ Len(out.ranking) = 1
    /\ out.ranking[1].Quantidade = 2

GroupRows(e) ==
    {i \in ClassRows : /\ dados[i].id_aluno = e.id_aluno
                       /\ dados[i].rm = e.RM
                       /\ dados[i].nome = e.Nome}

(* r is 100 * k / n rounded to an integer *)
IsRounded(r, k, n) ==
    /\ 2 * (100 * k - r * n) <= n
    /\ 2 * (r * n - 100 * k) <= n

(* C9: every row of the summary shown has notas_lancadas equal to the number
   of its group's records with a percentage, and pct_sem_nota equal to the
   rounded share of those without; 0 and 100 for a single record without a
   score. *)
C9_SummaryCounts ==
    (pc = "idle" /\ "resumo" \in out.views) =>
        \A k \in 1..Len(out.resumo) :
            LET e     == out.resumo[k]
                g     == GroupRows(e)
                nulls == Cardinality({i \in g : isna(dados[i].percentual)})
            IN  /\ g # {}
                /\ e.notas_lancadas = Cardinality(g) - nulls
                /\ IsRounded(e.pct_sem_nota, nulls, Cardinality(g))
                /\ (Cardinality(g) = 1 /\ \A i \in g : isna(dados[i].nota))
                       => (e.notas_lancadas = 0 /\ e.pct_sem_nota = 100)

(* a student with one score out of three records *)
C9_Witness ==
    /\ pc = "idle"
    /\ Len(out.resumo) = 1
    /\ out.resumo[1].notas_lancadas = 1
    /\ out.resumo[1].pct_sem_nota = 67

(* C10: no record handed on by the load holds an unread LOB. *)
C10_NoLobLeft ==
    /\ \A i \in 1..Len(dados) : \A col \in DOMAIN dados[i] : dados[i][col].t # "lob"
    /\ \A i \in 1..Len(atv) : \A col \in DOMAIN atv[i] : atv[i][col].t # "lob"

===========================================================================
